---- MODULE Spec2Model ----
(***************************************************************************)
(* CoopSim: a grid of agents playing a noisy two-action game with their    *)
(* Moore neighbours (src/src/env.rs, src/src/agent.rs, src/src/main.rs).   *)
(* Environment::step is modelled cell visit by cell visit: the three       *)
(* for_each_cell passes (adapt, decide, apply) followed by the aggregation *)
(* into a Metric.                                                          *)
(***************************************************************************)
EXTENDS Integers, Sequences, FiniteSets, TLC

VARIABLES
    pc,        \* "start" | "idle" | "adapt" | "decide" | "apply" | "aggregate" | "panic" | "topo"
               \* | "strategy" | "decided"
    num_row,   \* Environment.num_row
    num_col,   \* Environment.num_col
    noise,     \* Environment.noise, in hundredths
    grid,      \* Environment.grid : sequence of agents, row-major
    cursor,    \* position of for_each_cell: 0-based index of the next cell
    actions,   \* step()'s local map (Coord, Coord) -> Action
    buffer,    \* main()'s Vec<Metric> of the metrics returned so far
    steps,     \* number of step() calls made
    flips,     \* number of noise draws that flipped an action although they could have kept it
    start,     \* the grid as it was when the running step() was called
    played,    \* per ordered pair visited in the apply pass: <<my_action, their_action>>
    result     \* neighbor_coord of the cell visited last

vars == <<pc, num_row, num_col, noise, grid, cursor, actions, buffer, steps,
          flips, start, played, result>>

----------------------------------------------------------------------------
(* Bounds of the model *)

MaxRow == 2
MaxCol == 3
MaxCells == 3
MaxSteps == 2
MaxFlips == 1
MaxRandom == 1
MaxTopoDim == 4
MaxDeflectRow == 2
MaxDeflectCol == 3
MaxHist == 3

----------------------------------------------------------------------------
(* agent.rs: Action, Strategy *)

Action == {"Coop", "Deflect"}

Strategy == {"Deflect", "TicToc", "Coop", "Random"}

\* noise values handed to the constructor, in hundredths (f32 in the source)
NoiseLevels == {-50, 0, 50, 100, 150}

\* outcomes of rng.gen::<f32>() in [0, 1), in hundredths: the smallest and the largest
Draws == {0, 99}

Opposite(a) == IF a = "Coop" THEN "Deflect" ELSE "Coop"

\* Action::with_noise with the draw compared by <= instead of <
Action_with_noise_le(a, prob, r) == IF r <= prob THEN Opposite(a) ELSE a

\* Action::with_noise, r the value drawn from the rng
Action_with_noise(a, prob, r) == IF r < prob THEN Opposite(a) ELSE a

\* Strategy::get_action with TicToc answering the oldest recorded action
Strategy_get_action_first(s, history, r) ==
    CASE s = "Deflect" -> "Deflect"
      [] s = "TicToc"  -> IF Len(history) > 0 THEN history[1] ELSE "Coop"
      [] s = "Coop"    -> "Coop"
      [] s = "Random"  -> r

\* Strategy::get_action, r the action drawn by choose() in the Random arm
Strategy_get_action(s, history, r) ==
    CASE s = "Deflect" -> "Deflect"
      [] s = "TicToc"  -> IF Len(history) > 0 THEN history[Len(history)] ELSE "Coop"
      [] s = "Coop"    -> "Coop"
      [] s = "Random"  -> r

----------------------------------------------------------------------------
(* agent.rs: Agent *)

\* Agent::new starting the score from the agent's column
Agent_new_scored(coord, strategy) ==
    [coord |-> coord, history |-> <<>>, strategy |-> strategy, score |-> coord[2]]

\* Agent::new
Agent_new(coord, strategy) ==
    [coord |-> coord, history |-> <<>>, strategy |-> strategy, score |-> 0]

\* Iterator::max_by over the neighbours: of several maximal elements the last one
RECURSIVE max_by(_, _, _)
max_by(neighbors, best, i) ==
    IF i > Len(neighbors) THEN best
    ELSE max_by(neighbors,
                IF best.score > neighbors[i].score THEN best ELSE neighbors[i],
                i + 1)

\* Agent::adapt starting the imitated strategy from a score of zero
Agent_adapt_reset(self, neighbors) ==
    IF Len(neighbors) = 0 THEN self
    ELSE LET n == max_by(neighbors, neighbors[1], 2)
         IN  IF n.score > self.score
             THEN [self EXCEPT !.strategy = n.strategy, !.score = 0]
             ELSE self

\* Agent::adapt imitating a neighbour that merely ties with the cell
Agent_adapt_ge(self, neighbors) ==
    IF Len(neighbors) = 0 THEN self
    ELSE LET n == max_by(neighbors, neighbors[1], 2)
         IN  IF n.score >= self.score
             THEN [self EXCEPT !.strategy = n.strategy]
             ELSE self

\* Agent::adapt drawing a fresh strategy in place of the neighbour's
Agent_adapt_fresh(self, neighbors) ==
    IF Len(neighbors) = 0 THEN self
    ELSE LET n == max_by(neighbors, neighbors[1], 2)
         IN  IF n.score > self.score
             THEN [self EXCEPT !.strategy = "Random"]
             ELSE self

\* Agent::adapt
Agent_adapt(self, neighbors) ==
    IF Len(neighbors) = 0 THEN self
    ELSE LET n == max_by(neighbors, neighbors[1], 2)
         IN  IF n.score > self.score
             THEN [self EXCEPT !.strategy = n.strategy]
             ELSE self

\* Agent::get_action reading the other agent's history about self
Agent_get_action_other(self, agent, r) ==
    LET history == IF self.coord \in DOMAIN agent.history
                   THEN agent.history[self.coord]
                   ELSE <<>>
    IN  Strategy_get_action(self.strategy, history, r)

\* Agent::get_action
Agent_get_action(self, agent, r) ==
    LET history == IF agent.coord \in DOMAIN self.history
                   THEN self.history[agent.coord]
                   ELSE <<>>
    IN  Strategy_get_action(self.strategy, history, r)

\* Agent::score with the factor of `self.score * 1.0` set to a half
Agent_score_decay(self, agnet, other_action, score) ==
    [self EXCEPT
        !.history = IF agnet.coord \in DOMAIN self.history
                    THEN [self.history EXCEPT ![agnet.coord] = Append(@, other_action)]
                    ELSE self.history @@ (agnet.coord :> <<other_action>>),
        !.score = (self.score \div 2) + score]

\* Agent::score always taking the insert arm: the entry is replaced, not extended
Agent_score_overwrite(self, agnet, other_action, score) ==
    [self EXCEPT
        !.history = IF agnet.coord \in DOMAIN self.history
                    THEN [self.history EXCEPT ![agnet.coord] = <<other_action>>]
                    ELSE self.history @@ (agnet.coord :> <<other_action>>),
        !.score = self.score + score]

\* Agent::score
Agent_score(self, agnet, other_action, score) ==
    [self EXCEPT
        !.history = IF agnet.coord \in DOMAIN self.history
                    THEN [self.history EXCEPT ![agnet.coord] = Append(@, other_action)]
                    ELSE self.history @@ (agnet.coord :> <<other_action>>),
        !.score = self.score + score]

----------------------------------------------------------------------------
(* env.rs: grid topology *)

None == -1

\* usize::checked_add_signed refusing the result 0
checked_add_signed_pos(s, d) == IF s + d <= 0 THEN None ELSE s + d

\* usize::checked_add_signed
checked_add_signed(s, d) == IF s + d < 0 THEN None ELSE s + d

\* the closure `upper` admitting the bound itself
upper_le(bond, s) == IF s = None THEN None ELSE IF s <= bond THEN s ELSE None

\* the closure `upper` of neighbor_coord, applied through and_then
upper(bond, s) == IF s = None THEN None ELSE IF s < bond THEN s ELSE None

Offsets == <<-1, 0, 1>>

\* Environment::neighbor_coord
neighbor_coord(rows, cols, coord) ==
    LET cand == [k \in 1..9 |->
                    LET dx == Offsets[((k - 1) \div 3) + 1]
                        dy == Offsets[((k - 1) % 3) + 1]
                    IN  [dx |-> dx, dy |-> dy,
                         x |-> upper(rows, checked_add_signed(coord[1], dx)),
                         y |-> upper(cols, checked_add_signed(coord[2], dy))]]
        kept == SelectSeq(cand, LAMBDA t : (t.dx # 0 \/ t.dy # 0)
                                           /\ t.x # None /\ t.y # None)
    IN  [k \in 1..Len(kept) |-> <<kept[k].x, kept[k].y>>]

\* Environment::to_vec_index with row and column exchanged
to_vec_index_swapped(cols, coord) == cols * coord[2] + coord[1]

\* Environment::to_vec_index
to_vec_index(cols, coord) == cols * coord[1] + coord[2]

\* the coordinate for_each_cell visits at position i of its two nested loops
CellAt(cols, i) == <<i \div cols, i % cols>>

Range(s) == {s[k] : k \in 1..Len(s)}

\* the two assertions of for_each_cell for the cell (x, y)
for_each_cell_asserts(rows, cols, len, coord) ==
    LET all_coords == neighbor_coord(rows, cols, coord) \o <<coord>>
    IN  /\ Len(all_coords) = Cardinality(Range(all_coords))
        /\ \A c \in Range(all_coords) : to_vec_index(cols, c) < len

----------------------------------------------------------------------------
(* env.rs: Environment *)

\* Environment::score paying the other side's payoff
Environment_score_swapped(a, b) ==
    CASE b = "Coop" /\ a = "Coop"    -> 3
      [] b = "Deflect" /\ a = "Coop" -> 4
      [] OTHER                       -> 0

\* Environment::score with the usual punishment payoff 1 for mutual defection
Environment_score_pd(a, b) ==
    CASE a = "Coop" /\ b = "Coop"       -> 3
      [] a = "Deflect" /\ b = "Coop"    -> 4
      [] a = "Deflect" /\ b = "Deflect" -> 1
      [] OTHER                          -> 0

\* Environment::score, the payoff of the side playing a against b
Environment_score(a, b) ==
    CASE a = "Coop" /\ b = "Coop"    -> 3
      [] a = "Deflect" /\ b = "Coop" -> 4
      [] OTHER                       -> 0

\* the references for_each_cell hands to its callback: the cell itself ...
current(g, cols, coord) == g[to_vec_index(cols, coord) + 1]

\* ... and its neighbours, read from the grid as it is at the time of the visit
agents(g, rows, cols, coord) ==
    LET nc == neighbor_coord(rows, cols, coord)
    IN  [k \in 1..Len(nc) |-> g[to_vec_index(cols, nc[k]) + 1]]

\* the grid built by the two nested loops of new_with_agent_func
new_grid(rows, cols, agent_fn) ==
    [i \in 1..(rows * cols) |-> Agent_new(CellAt(cols, i - 1), agent_fn[i])]

\* the decide closure of step(): one insert per neighbour, ch[i] the rng's choice
RECURSIVE decide(_, _, _, _, _)
decide(acts, curr, neighbors, ch, i) ==
    IF i > Len(neighbors) THEN acts
    ELSE LET n   == neighbors[i]
             key == <<curr.coord, n.coord>>
             a   == Agent_get_action(curr, n, ch[i])
         IN  decide(IF key \in DOMAIN acts
                    THEN [acts EXCEPT ![key] = a]
                    ELSE acts @@ (key :> a),
                    curr, neighbors, ch, i + 1)

\* the played actions of the apply closure for neighbour i: dr[i] = <<draw for
\* my_action, draw for their_action>>
my_action(acts, curr, n, prob, d) ==
    Action_with_noise(acts[<<curr.coord, n.coord>>], prob, d[1])

their_action(acts, curr, n, prob, d) ==
    Action_with_noise(acts[<<n.coord, curr.coord>>], prob, d[2])

\* the apply closure calling score(their_action, my_action)
RECURSIVE apply_swapped(_, _, _, _, _, _)
apply_swapped(acts, curr, neighbors, prob, dr, i) ==
    IF i > Len(neighbors) THEN curr
    ELSE LET n  == neighbors[i]
             ma == my_action(acts, curr, n, prob, dr[i])
             ta == their_action(acts, curr, n, prob, dr[i])
         IN  apply_swapped(acts, Agent_score(curr, n, ta, Environment_score(ta, ma)),
                           neighbors, prob, dr, i + 1)

\* the apply closure of step(): one Agent::score call per neighbour
RECURSIVE apply(_, _, _, _, _, _)
apply(acts, curr, neighbors, prob, dr, i) ==
    IF i > Len(neighbors) THEN curr
    ELSE LET n  == neighbors[i]
             ma == my_action(acts, curr, n, prob, dr[i])
             ta == their_action(acts, curr, n, prob, dr[i])
         IN  apply(acts, Agent_score(curr, n, ta, Environment_score(ma, ta)),
                   neighbors, prob, dr, i + 1)

\* the keys actions[..] is indexed with while the cell is visited in the apply pass
apply_keys(curr, neighbors) ==
    UNION {{<<curr.coord, neighbors[k].coord>>, <<neighbors[k].coord, curr.coord>>} :
           k \in 1..Len(neighbors)}

\* the accumulation inserting curr.score without taking the maximum
RECURSIVE tally_last(_, _, _)
tally_last(g, i, acc) ==
    IF i > Len(g) THEN acc
    ELSE LET curr  == g[i]
             s     == curr.strategy
             count == (IF s \in DOMAIN acc.strategies THEN acc.strategies[s] ELSE 0) + 1
         IN  tally_last(g, i + 1,
                   [strategies |-> IF s \in DOMAIN acc.strategies
                                   THEN [acc.strategies EXCEPT ![s] = count]
                                   ELSE acc.strategies @@ (s :> count),
                    max_score  |-> IF s \in DOMAIN acc.max_score
                                   THEN [acc.max_score EXCEPT ![s] = curr.score]
                                   ELSE acc.max_score @@ (s :> curr.score)])

\* the strategies and max_score maps of step(), accumulated over grid.iter()
RECURSIVE tally(_, _, _)
tally(g, i, acc) ==
    IF i > Len(g) THEN acc
    ELSE LET curr  == g[i]
             s     == curr.strategy
             count == (IF s \in DOMAIN acc.strategies THEN acc.strategies[s] ELSE 0) + 1
             score == IF s \in DOMAIN acc.max_score THEN acc.max_score[s] ELSE 0
             best  == IF score > curr.score THEN score ELSE curr.score
         IN  tally(g, i + 1,
                   [strategies |-> IF s \in DOMAIN acc.strategies
                                   THEN [acc.strategies EXCEPT ![s] = count]
                                   ELSE acc.strategies @@ (s :> count),
                    max_score  |-> IF s \in DOMAIN acc.max_score
                                   THEN [acc.max_score EXCEPT ![s] = best]
                                   ELSE acc.max_score @@ (s :> best)])

\* slice::chunks(n) for n > 0
chunks(s, n) ==
    LET rows == (Len(s) + n - 1) \div n
    IN  [i \in 1..rows |->
            [j \in 1..(IF i * n <= Len(s) THEN n ELSE Len(s) - (i - 1) * n) |->
                s[(i - 1) * n + j]]]

\* the Metric with the snapshot cut into chunks of num_row instead of num_col
Metric_rows(g, cols, acts) ==
    LET t == tally(g, 1, [strategies |-> <<>>, max_score |-> <<>>])
    IN  [strategies   |-> t.strategies,
         max_score    |-> t.max_score,
         coop_actions |-> Cardinality({k \in DOMAIN acts : acts[k] = "Coop"}),
         snapshot     |-> IF Len(g) = 0 THEN <<>>
                          ELSE chunks([i \in 1..Len(g) |-> g[i].strategy], Len(g) \div cols)]

\* the Metric with coop_actions counted over the played actions of the apply pass
Metric_played(g, cols, acts) ==
    LET t == tally(g, 1, [strategies |-> <<>>, max_score |-> <<>>])
    IN  [strategies   |-> t.strategies,
         max_score    |-> t.max_score,
         coop_actions |-> Cardinality({k \in DOMAIN acts : k \in DOMAIN played
                                                           /\ played[k][1] = "Coop"}),
         snapshot     |-> chunks([i \in 1..Len(g) |-> g[i].strategy], cols)]

\* the Metric step() returns
Metric(g, cols, acts) ==
    LET t == tally(g, 1, [strategies |-> <<>>, max_score |-> <<>>])
    IN  [strategies   |-> t.strategies,
         max_score    |-> t.max_score,
         coop_actions |-> Cardinality({k \in DOMAIN acts : acts[k] = "Coop"}),
         snapshot     |-> chunks([i \in 1..Len(g) |-> g[i].strategy], cols)]

----------------------------------------------------------------------------
(* The state machine *)

NumCells == num_row * num_col

\* the draws of one apply visit that flipped an action the rng could have kept
FlipCount(prob, dr) ==
    IF prob >= 100 THEN 0
    ELSE Cardinality({<<k, side>> \in (DOMAIN dr) \X {1, 2} : dr[k][side] < prob})

Init ==
    /\ pc = "start"
    /\ num_row = 0
    /\ num_col = 0
    /\ noise = 0
    /\ grid = <<>>
    /\ cursor = 0
    /\ actions = <<>>
    /\ buffer = <<>>
    /\ steps = 0
    /\ flips = 0
    /\ start = <<>>
    /\ played = <<>>
    /\ result = <<>>

\* Environment::new_with_agent_func: no argument is checked. The factory builds
\* each agent with Agent::new at the coordinate it is called with (main.rs,
\* Environment::new).
new_with_agent_func ==
    /\ pc = "start"
    /\ \E rows \in 0..MaxRow, cols \in 0..MaxCol, prob \in NoiseLevels :
          /\ rows * cols <= MaxCells
          /\ \E agent_fn \in [1..(rows * cols) -> Strategy] :
                /\ Cardinality({i \in DOMAIN agent_fn : agent_fn[i] = "Random"}) <= MaxRandom
                /\ num_row' = rows
                /\ num_col' = cols
                /\ noise' = prob
                /\ grid' = new_grid(rows, cols, agent_fn)
    /\ pc' = "idle"
    /\ UNCHANGED <<cursor, actions, buffer, steps, flips, start, played, result>>

\* main()'s loop calls env.step(): the locals of step() are fresh
step ==
    /\ pc = "idle"
    /\ steps < MaxSteps
    /\ steps' = steps + 1
    /\ actions' = <<>>
    /\ played' = <<>>
    /\ start' = grid
    /\ cursor' = 0
    /\ pc' = IF NumCells = 0 THEN "aggregate" ELSE "adapt"
    /\ UNCHANGED <<num_row, num_col, noise, grid, buffer, flips, result>>

\* for_each_cell moves on: to the next cell, or past the last one to the next pass
Advance(next) ==
    IF cursor + 1 < NumCells
    THEN /\ cursor' = cursor + 1
         /\ pc' = pc
    ELSE /\ cursor' = 0
         /\ pc' = next

\* for_each_cell's asserts hold for the cell under the cursor
AssertsHold == for_each_cell_asserts(num_row, num_col, Len(grid), CellAt(num_col, cursor))

\* pass 1 of step(): curr.adapt(neighbors) for the cell under the cursor
adapt_cell ==
    /\ pc = "adapt"
    /\ LET coord == CellAt(num_col, cursor)
       IN  IF ~AssertsHold
           THEN /\ pc' = "panic"
                /\ UNCHANGED <<grid, cursor, result>>
           ELSE /\ grid' = [grid EXCEPT ![to_vec_index(num_col, coord) + 1] =
                               Agent_adapt(current(grid, num_col, coord),
                                           agents(grid, num_row, num_col, coord))]
                /\ result' = neighbor_coord(num_row, num_col, coord)
                /\ Advance("decide")
    /\ UNCHANGED <<num_row, num_col, noise, actions, buffer, steps, flips, start, played>>

\* pass 2 of step(): actions.insert((curr.coord, n.coord), curr.get_action(n))
decide_cell ==
    /\ pc = "decide"
    /\ LET coord == CellAt(num_col, cursor)
       IN  IF ~AssertsHold
           THEN /\ pc' = "panic"
                /\ UNCHANGED <<actions, cursor, result>>
           ELSE LET curr == current(grid, num_col, coord)
                    nbrs == agents(grid, num_row, num_col, coord)
                IN  /\ \E ch \in IF curr.strategy = "Random"
                                 THEN [1..Len(nbrs) -> Action]
                                 ELSE {[k \in 1..Len(nbrs) |-> "Coop"]} :
                          actions' = decide(actions, curr, nbrs, ch, 1)
                    /\ result' = neighbor_coord(num_row, num_col, coord)
                    /\ Advance("apply")
    /\ UNCHANGED <<num_row, num_col, noise, grid, buffer, steps, flips, start, played>>

\* pass 3 of step(): curr.score(n, their_action, score(my_action, their_action))
apply_cell ==
    /\ pc = "apply"
    /\ LET coord == CellAt(num_col, cursor)
       IN  IF ~AssertsHold
           THEN /\ pc' = "panic"
                /\ UNCHANGED <<grid, cursor, result, flips, played>>
           ELSE LET curr == current(grid, num_col, coord)
                    nbrs == agents(grid, num_row, num_col, coord)
                IN  IF ~(apply_keys(curr, nbrs) \subseteq DOMAIN actions)
                    THEN /\ pc' = "panic"
                         /\ UNCHANGED <<grid, cursor, result, flips, played>>
                    ELSE /\ \E dr \in [1..Len(nbrs) -> Draws \X Draws] :
                               /\ flips + FlipCount(noise, dr) <= MaxFlips
                               /\ flips' = flips + FlipCount(noise, dr)
                               /\ grid' = [grid EXCEPT ![to_vec_index(num_col, coord) + 1] =
                                              apply(actions, curr, nbrs, noise, dr, 1)]
                               /\ played' = played @@
                                     [key \in {<<curr.coord, nbrs[k].coord>> : k \in 1..Len(nbrs)} |->
                                        LET k == CHOOSE j \in 1..Len(nbrs) : nbrs[j].coord = key[2]
                                        IN  <<my_action(actions, curr, nbrs[k], noise, dr[k]),
                                              their_action(actions, curr, nbrs[k], noise, dr[k])>>]
                         /\ result' = neighbor_coord(num_row, num_col, coord)
                         /\ Advance("aggregate")
    /\ UNCHANGED <<num_row, num_col, noise, actions, buffer, steps, start>>

\* the tail of step() returning a Metric whose snapshot is a view of the grid:
\* every retained snapshot shows the grid as it is now
aggregate_aliased ==
    /\ pc = "aggregate"
    /\ IF num_col = 0
       THEN /\ pc' = "panic"
            /\ UNCHANGED buffer
       ELSE LET m == Metric(grid, num_col, actions)
            IN  /\ buffer' = Append([i \in 1..Len(buffer) |->
                                        [buffer[i] EXCEPT !.snapshot = m.snapshot]], m)
                /\ pc' = "idle"
    /\ UNCHANGED <<num_row, num_col, noise, grid, cursor, actions, steps, flips,
                   start, played, result>>

\* the tail of step(): the Metric is built and returned, main() pushes it on its
\* buffer; chunks(0) panics
aggregate ==
    /\ pc = "aggregate"
    /\ IF num_col = 0
       THEN /\ pc' = "panic"
            /\ UNCHANGED buffer
       ELSE /\ buffer' = Append(buffer, Metric(grid, num_col, actions))
            /\ pc' = "idle"
    /\ UNCHANGED <<num_row, num_col, noise, grid, cursor, actions, steps, flips,
                   start, played, result>>

Next ==
    \/ new_with_agent_func
    \/ step
    \/ adapt_cell
    \/ decide_cell
    \/ apply_cell
    \/ aggregate

Spec == Init /\ [][Next]_vars

----------------------------------------------------------------------------
(* for_each_cell alone, on grids of every size up to MaxTopoDim x MaxTopoDim *)

TopoInit ==
    /\ pc = "topo"
    /\ num_row \in 1..MaxTopoDim
    /\ num_col \in 1..MaxTopoDim
    /\ noise = 0
    /\ grid = new_grid(num_row, num_col, [i \in 1..(num_row * num_col) |-> "Deflect"])
    /\ cursor = 0
    /\ actions = <<>>
    /\ buffer = <<>>
    /\ steps = 0
    /\ flips = 0
    /\ start = <<>>
    /\ played = <<>>
    /\ result = <<>>

\* one iteration of for_each_cell's loops with a callback that does nothing
for_each_cell ==
    /\ pc = "topo"
    /\ cursor < NumCells
    /\ IF ~AssertsHold
       THEN /\ pc' = "panic"
            /\ UNCHANGED <<cursor, result>>
       ELSE /\ result' = neighbor_coord(num_row, num_col, CellAt(num_col, cursor))
            /\ cursor' = cursor + 1
            /\ pc' = pc
    /\ UNCHANGED <<num_row, num_col, noise, grid, actions, buffer, steps, flips,
                   start, played>>

TopoNext == for_each_cell

TopoSpec == TopoInit /\ [][TopoNext]_vars

----------------------------------------------------------------------------
(* step() on grids of every size up to MaxDeflectRow x MaxDeflectCol whose    *)
(* agents all hold Deflect, without noise                                     *)

DeflectInit ==
    /\ pc = "idle"
    /\ num_row \in 1..MaxDeflectRow
    /\ num_col \in 1..MaxDeflectCol
    /\ noise = 0
    /\ grid = new_grid(num_row, num_col, [i \in 1..(num_row * num_col) |-> "Deflect"])
    /\ cursor = 0
    /\ actions = <<>>
    /\ buffer = <<>>
    /\ steps = 0
    /\ flips = 0
    /\ start = <<>>
    /\ played = <<>>
    /\ result = <<>>

DeflectNext ==
    \/ step
    \/ adapt_cell
    \/ decide_cell
    \/ apply_cell
    \/ aggregate

DeflectSpec == DeflectInit /\ [][DeflectNext]_vars

----------------------------------------------------------------------------
(* Agent::get_action alone: an agent of any strategy facing a neighbour about *)
(* which it has recorded nothing, or up to MaxHist actions                    *)

\* the histories Agent::score can have built about one neighbour
Histories == UNION {[1..n -> Action] : n \in 1..MaxHist}

StrategyInit ==
    /\ pc = "strategy"
    /\ num_row = 1
    /\ num_col = 2
    /\ noise = 0
    /\ \E s \in Strategy :
          \E h \in {<<>>} \cup {(<<0, 1>> :> x) : x \in Histories} :
              grid = <<[Agent_new(<<0, 0>>, s) EXCEPT !.history = h],
                       Agent_new(<<0, 1>>, "Deflect")>>
    /\ cursor = 0
    /\ actions = <<>>
    /\ buffer = <<>>
    /\ steps = 0
    /\ flips = 0
    /\ start = <<>>
    /\ played = <<>>
    /\ result = <<>>

\* curr.get_action(n) for the agent at (0, 0) and its neighbour
get_action ==
    /\ pc = "strategy"
    /\ \E r \in IF grid[1].strategy = "Random" THEN Action ELSE {"Coop"} :
          result' = Agent_get_action(grid[1], grid[2], r)
    /\ pc' = "decided"
    /\ UNCHANGED <<num_row, num_col, noise, grid, cursor, actions, buffer, steps,
                   flips, start, played>>

StrategyNext == get_action

StrategySpec == StrategyInit /\ [][StrategyNext]_vars

----------------------------------------------------------------------------
(* Vocabulary of the properties *)

\* the coordinates of the grid
Cells == (0..(num_row - 1)) \X (0..(num_col - 1))

\* the neighbours of a cell, as a set
NeighborSet(c) == Range(neighbor_coord(num_row, num_col, c))

\* the ordered neighbour pairs of the grid
OrderedPairs == {p \in Cells \X Cells : p[2] \in NeighborSet(p[1])}

\* the agent stored for coordinate c in grid g
AgentAt(g, c) == g[to_vec_index(num_col, c) + 1]

\* what agent a has recorded about the agent at coordinate c
HistoryToward(a, c) == IF c \in DOMAIN a.history THEN a.history[c] ELSE <<>>

\* the payoff table of the specification
Payoff(mine, theirs) ==
    IF mine = "Coop" /\ theirs = "Coop" THEN 3
    ELSE IF mine = "Deflect" /\ theirs = "Coop" THEN 4
    ELSE 0

\* the action a history-independent or history-following policy decides
Policy(s, history) ==
    IF s = "Deflect" THEN "Deflect"
    ELSE IF s = "Coop" THEN "Coop"
    ELSE IF Len(history) = 0 THEN "Coop" ELSE history[Len(history)]

\* a step is past its adapt pass (or has returned)
AdaptDone == steps >= 1 /\ NumCells > 0 /\ pc \in {"decide", "apply", "aggregate", "idle"}

\* a step has applied all its payoffs (or has returned)
ApplyDone == steps >= 1 /\ NumCells > 0 /\ pc \in {"aggregate", "idle"}

----------------------------------------------------------------------------
(* C1: after the adapt pass every cell holds the strategy a double-buffered *)
(* pass computes for it from the grid as it was when step() was called: the *)
(* strategy of its best neighbour at the start of the step if that one      *)
(* scores strictly higher, its own otherwise.                               *)

C1_AdaptReadsStartOfStep ==
    AdaptDone =>
        \A c \in Cells :
            AgentAt(grid, c).strategy =
                Agent_adapt(AgentAt(start, c), agents(start, num_row, num_col, c)).strategy

----------------------------------------------------------------------------
(* C2: the passes of step() run in order with barriers. The adapt pass      *)
(* changes no score, no history and no decided action; the decide pass      *)
(* starts only after the last cell has adapted and changes no agent; the    *)
(* apply pass starts only after every ordered neighbour pair has its        *)
(* decided action and changes no strategy and no decided action. Hence the  *)
(* decided action c->n of a non-Random agent is the action its post-adapt   *)
(* strategy decides on the history c had about n when step() was called;    *)
(* a Random agent's is whatever the rng chose.                              *)

C2_DecidedFromPolicy ==
    (steps >= 1 /\ pc \in {"decide", "apply", "aggregate", "idle"}) =>
        \A key \in DOMAIN actions :
            LET s == AgentAt(grid, key[1]).strategy
            IN  /\ actions[key] \in Action
                /\ s # "Random" =>
                      actions[key] = Policy(s, HistoryToward(AgentAt(start, key[1]), key[2]))

C2_PassBarriers ==
    [][ /\ pc = "adapt" =>
              /\ pc' \in {"adapt", "decide", "panic"}
              /\ actions' = actions /\ actions = <<>>
              /\ \A i \in 1..Len(grid) : /\ grid'[i].score = grid[i].score
                                         /\ grid'[i].history = grid[i].history
        /\ (pc = "adapt" /\ pc' = "decide") => cursor = NumCells - 1
        /\ pc = "decide" =>
              /\ pc' \in {"decide", "apply", "panic"}
              /\ grid' = grid
              /\ grid = [i \in 1..Len(grid) |->
                            [start[i] EXCEPT !.strategy = grid[i].strategy]]
        /\ (pc = "decide" /\ pc' = "apply") =>
              /\ cursor = NumCells - 1
              /\ DOMAIN actions' = OrderedPairs
        /\ pc = "apply" =>
              /\ pc' \in {"apply", "aggregate", "panic"}
              /\ actions' = actions
              /\ \A i \in 1..Len(grid) : grid'[i].strategy = grid[i].strategy
        /\ C2_DecidedFromPolicy'
      ]_vars

\* a second step has decided: a TicToc agent answers a defection recorded in the previous step
C2_Witness ==
    /\ steps = 2
    /\ pc = "apply"
    /\ \E key \in DOMAIN actions :
          /\ AgentAt(grid, key[1]).strategy = "TicToc"
          /\ actions[key] = "Deflect"

----------------------------------------------------------------------------
(* C3: with noise = 0 one step() raises the score of every agent by the sum, *)
(* over its neighbours n, of the payoff-table value of (decided action       *)
(* agent->n, decided action n->agent).                                       *)

RECURSIVE PayoffSum(_, _, _)
PayoffSum(c, nc, i) ==
    IF i > Len(nc) THEN 0
    ELSE Payoff(actions[<<c, nc[i]>>], actions[<<nc[i], c>>]) + PayoffSum(c, nc, i + 1)

C3_NoiselessScore ==
    (noise = 0 /\ ApplyDone) =>
        \A c \in Cells :
            AgentAt(grid, c).score =
                AgentAt(start, c).score + PayoffSum(c, neighbor_coord(num_row, num_col, c), 1)

\* a noiseless step has paid a cell with two neighbours 3 + 4
C3_Witness ==
    /\ noise = 0
    /\ ApplyDone
    /\ \E c \in Cells : AgentAt(grid, c).score = AgentAt(start, c).score + 7

----------------------------------------------------------------------------
(* C4: Agent.adapt leaves the cell with the strategy of a neighbour of       *)
(* maximal score when the maximal neighbour score exceeds the cell's score,  *)
(* and with its own strategy when it does not or when there is no neighbour; *)
(* nothing else of the cell changes.                                         *)

C4_Adapt ==
    [][ (pc = "adapt" /\ pc' # "panic") =>
            LET c    == CellAt(num_col, cursor)
                self == AgentAt(grid, c)
                nbrs == {AgentAt(grid, n) : n \in NeighborSet(c)}
                best == {n \in nbrs : \A m \in nbrs : m.score <= n.score}
                new  == AgentAt(grid', c)
            IN  /\ (nbrs # {} /\ \E n \in nbrs : n.score > self.score)
                      => new.strategy \in {n.strategy : n \in best}
                /\ (nbrs = {} \/ \A n \in nbrs : n.score <= self.score)
                      => new.strategy = self.strategy
                /\ new = [self EXCEPT !.strategy = new.strategy]
      ]_vars

\* adapt has made a cell imitate a better neighbour, and left another cell alone
\* although a neighbour ties with it
C4_Witness ==
    /\ pc \in {"adapt", "decide"}
    /\ \E c \in Cells : AgentAt(grid, c).strategy # AgentAt(start, c).strategy
    /\ \E c \in Cells, n \in Cells :
          /\ n \in NeighborSet(c)
          /\ to_vec_index(num_col, c) < cursor \/ pc = "decide"
          /\ AgentAt(start, c).score = AgentAt(start, n).score
          /\ AgentAt(start, c).strategy # AgentAt(start, n).strategy
          /\ AgentAt(grid, c).strategy = AgentAt(start, c).strategy

----------------------------------------------------------------------------
(* C5: every directed pairing has one played action per step: what c's visit *)
(* took as (c's action, n's action) is what n's visit took as (their action, *)
(* my action).                                                               *)

C5_OnePlayedAction ==
    \A key \in DOMAIN played :
        <<key[2], key[1]>> \in DOMAIN played =>
            /\ played[<<key[2], key[1]>>][1] = played[key][2]
            /\ played[<<key[2], key[1]>>][2] = played[key][1]

----------------------------------------------------------------------------
(* C6: coop_actions of the Metric a step returns is the number of ordered     *)
(* neighbour pairs whose decided action is Coop; when no agent holds Random   *)
(* it is the number of ordered neighbour pairs (c, n) for which c's strategy  *)
(* decides Coop on the history c had about n when step() was called, which no *)
(* noise value enters.                                                        *)

C6_CoopActions ==
    (pc = "idle" /\ steps >= 1 /\ Len(buffer) = steps) =>
        LET m == buffer[Len(buffer)]
        IN  /\ m.coop_actions = Cardinality({p \in OrderedPairs : actions[p] = "Coop"})
            /\ (\A c \in Cells : AgentAt(grid, c).strategy # "Random") =>
                  m.coop_actions =
                      Cardinality({p \in OrderedPairs :
                          Policy(AgentAt(grid, p[1]).strategy,
                                 HistoryToward(AgentAt(start, p[1]), p[2])) = "Coop"})

\* a step under noise that flips every action has returned a Metric counting Coop decisions
C6_Witness ==
    /\ pc = "idle"
    /\ steps = 2
    /\ Len(buffer) = 2
    /\ noise = 100
    /\ \A c \in Cells : AgentAt(grid, c).strategy # "Random"
    /\ buffer[2].coop_actions = 2
    /\ Cardinality(OrderedPairs) = 4

----------------------------------------------------------------------------
(* C7: neighbor_coord(c) never contains c or a coordinate outside the grid,   *)
(* and on a grid with at least two rows and two columns it has 8 elements for *)
(* an interior c, 5 for a c on a non-corner edge and 3 for a corner.          *)

OnRowEdge(c) == c[1] = 0 \/ c[1] = num_row - 1

OnColEdge(c) == c[2] = 0 \/ c[2] = num_col - 1

ExpectedNeighbors(c) ==
    IF OnRowEdge(c) /\ OnColEdge(c) THEN 3
    ELSE IF OnRowEdge(c) \/ OnColEdge(c) THEN 5
    ELSE 8

\* the cell for_each_cell visited last
Visited == CellAt(num_col, cursor - 1)

NeighborsInside == Visited \notin Range(result) /\ Range(result) \subseteq Cells

\* the claim as stated, for every grid with at least one row and one column
C7_NeighborCountAnyGrid ==
    (pc = "topo" /\ cursor > 0) =>
        /\ Len(result) = ExpectedNeighbors(Visited)
        /\ NeighborsInside

C7_NeighborCount ==
    (pc = "topo" /\ cursor > 0) =>
        /\ (num_row >= 2 /\ num_col >= 2) => Len(result) = ExpectedNeighbors(Visited)
        /\ NeighborsInside

\* an interior cell, a non-corner edge cell or a corner has been visited
C7_Witness ==
    /\ pc = "topo"
    /\ cursor > 0
    /\ num_row >= 3
    /\ num_col >= 3
    /\ Len(result) = 8

----------------------------------------------------------------------------
(* C8: the row-major index is injective on the coordinates of the grid and    *)
(* lands in 0 .. R*C-1; the cell visited by for_each_cell and its neighbours  *)
(* have pairwise distinct indices in range, and no assertion of for_each_cell *)
(* fails.                                                                     *)

C8_IndexInjective ==
    /\ pc # "panic"
    /\ \A c \in Cells : to_vec_index(num_col, c) \in 0..(NumCells - 1)
    /\ \A c1 \in Cells, c2 \in Cells :
          c1 # c2 => to_vec_index(num_col, c1) # to_vec_index(num_col, c2)
    /\ (pc = "topo" /\ cursor > 0) =>
          LET all == result \o <<Visited>>
          IN  /\ \A i \in 1..Len(all), j \in 1..Len(all) :
                    i # j => to_vec_index(num_col, all[i]) # to_vec_index(num_col, all[j])
              /\ \A i \in 1..Len(all) : to_vec_index(num_col, all[i]) < Len(grid)

\* for_each_cell has visited every cell of a grid that is not square
C8_Witness ==
    /\ pc = "topo"
    /\ cursor = NumCells
    /\ num_row >= 3
    /\ num_col = 2
    /\ Len(result) = 3

----------------------------------------------------------------------------
(* C9: an Environment exists only for a grid with at least one row and one   *)
(* column and a noise value in [0, 1].                                       *)

C9_ConfigRejected ==
    pc # "start" => (num_row > 0 /\ num_col > 0 /\ noise >= 0 /\ noise <= 100)

----------------------------------------------------------------------------
(* C10: no step changes a Metric returned earlier: the metrics main() has    *)
(* retained stay as they were returned.                                      *)

C10_MetricCopyOut ==
    [][ /\ Len(buffer') >= Len(buffer)
        /\ \A i \in 1..Len(buffer) : buffer'[i] = buffer[i]
      ]_vars

\* a second step has changed the strategies of the grid after the first Metric was returned
C10_Witness ==
    /\ Len(buffer) = 2
    /\ buffer[1].snapshot # buffer[2].snapshot
    /\ buffer[1].max_score # buffer[2].max_score

----------------------------------------------------------------------------
(* C11: in the Metric step() returns, strategies and max_score have exactly   *)
(* the strategies some agent holds as keys; strategies[s] is the number of    *)
(* agents holding s, the counts add up to num_row * num_col, and max_score[s] *)
(* is the greatest score among the agents holding s.                          *)

\* a step has returned and main() has pushed its Metric
Returned == pc = "idle" /\ steps >= 1 /\ Len(buffer) = steps

Holders(s) == {c \in Cells : AgentAt(grid, c).strategy = s}

RECURSIVE SumOver(_, _)
SumOver(f, keys) ==
    IF keys = {} THEN 0
    ELSE LET k == CHOOSE x \in keys : TRUE
         IN  f[k] + SumOver(f, keys \ {k})

C11_StrategyTally ==
    Returned =>
        LET m    == buffer[Len(buffer)]
            held == {s \in Strategy : Holders(s) # {}}
        IN  /\ DOMAIN m.strategies = held
            /\ DOMAIN m.max_score = held
            /\ \A s \in held :
                  /\ m.strategies[s] = Cardinality(Holders(s))
                  /\ \E c \in Holders(s) : m.max_score[s] = AgentAt(grid, c).score
                  /\ \A c \in Holders(s) : m.max_score[s] >= AgentAt(grid, c).score
            /\ SumOver(m.strategies, held) = num_row * num_col

\* two agents hold the same strategy and the one stored first has the greater score
C11_Witness ==
    /\ Returned
    /\ \E c \in Cells, d \in Cells :
          /\ to_vec_index(num_col, c) < to_vec_index(num_col, d)
          /\ AgentAt(grid, c).strategy = AgentAt(grid, d).strategy
          /\ AgentAt(grid, c).score > AgentAt(grid, d).score
          /\ Cardinality(Holders(AgentAt(grid, c).strategy)) = 2

----------------------------------------------------------------------------
(* C12: on the 1x2 grid with Coop at (0,0), Deflect at (0,1) and noise 0 the  *)
(* first step decides Coop for (0,0)->(0,1) and Deflect for (0,1)->(0,0) and  *)
(* ends with the scores 0 and 4 and both strategies unchanged; the adapt pass *)
(* of the second step makes (0,0) Deflect.                                    *)

CoopDeflectGrid == num_row = 1 /\ num_col = 2 /\ noise = 0 /\ steps >= 1

C12_CoopMeetsDeflect ==
    /\ ( /\ CoopDeflectGrid
         /\ steps = 1
         /\ start[1].strategy = "Coop"
         /\ start[2].strategy = "Deflect" ) =>
            /\ pc \in {"apply", "aggregate", "idle"} =>
                  /\ actions[<<<<0, 0>>, <<0, 1>>>>] = "Coop"
                  /\ actions[<<<<0, 1>>, <<0, 0>>>>] = "Deflect"
            /\ pc \in {"aggregate", "idle"} =>
                  /\ grid[1].score = 0
                  /\ grid[2].score = 4
                  /\ grid[1].strategy = "Coop"
                  /\ grid[2].strategy = "Deflect"
    /\ ( /\ CoopDeflectGrid
         /\ steps = 2
         /\ buffer[1].snapshot = <<<<"Coop", "Deflect">>>>
         /\ buffer[1].coop_actions = 1
         /\ pc \in {"decide", "apply", "aggregate", "idle"} ) =>
            /\ start[1].score = 0
            /\ start[2].score = 4
            /\ grid[1].strategy = "Deflect"
            /\ grid[2].strategy = "Deflect"

\* the second step has made the Coop agent of the scenario imitate the Deflect agent
C12_Witness ==
    /\ CoopDeflectGrid
    /\ steps = 2
    /\ pc = "decide"
    /\ start[1].strategy = "Coop"
    /\ start[2].strategy = "Deflect"
    /\ start[2].score = 4
    /\ grid[1].strategy = "Deflect"

----------------------------------------------------------------------------
(* C13: on a grid whose agents all hold Deflect, without noise, after any     *)
(* number of steps every agent still holds Deflect with score 0, every        *)
(* decided and played action is Deflect, every payoff is 0, and every Metric  *)
(* returned has coop_actions = 0 and strategies = {Deflect: num_row*num_col}. *)

C13_AllDeflect ==
    /\ \A i \in 1..Len(grid) :
          /\ grid[i].strategy = "Deflect"
          /\ grid[i].score = 0
          /\ \A n \in DOMAIN grid[i].history :
                \A k \in 1..Len(grid[i].history[n]) : grid[i].history[n][k] = "Deflect"
    /\ \A key \in DOMAIN actions : actions[key] = "Deflect"
    /\ \A key \in DOMAIN played :
          /\ played[key] = <<"Deflect", "Deflect">>
          /\ Environment_score(played[key][1], played[key][2]) = 0
    /\ \A k \in 1..Len(buffer) :
          /\ buffer[k].coop_actions = 0
          /\ buffer[k].strategies = ("Deflect" :> (num_row * num_col))

\* the 2x2 grid of Deflect agents has run two steps
C13_Witness ==
    /\ num_row = 2
    /\ num_col = 2
    /\ pc = "idle"
    /\ Len(buffer) = 2
    /\ Cardinality(DOMAIN actions) = 12
    /\ \A i \in 1..4 : grid[i].strategy = "Deflect" /\ grid[i].score = 0

----------------------------------------------------------------------------
(* C14: every agent starts with score 0 and no step ever lowers a score: a    *)
(* visit of the apply pass adds one payoff from {0, 3, 4} per neighbour, and  *)
(* every other step, the adapt pass included, leaves every score as it is.    *)

\* the sums of k payoffs from {0, 3, 4}
PayoffSums(k) == {3 * a + 4 * b : <<a, b>> \in {p \in (0..k) \X (0..k) : p[1] + p[2] <= k}}

C14_ScoreMonotone ==
    [][ IF pc = "start"
        THEN \A i \in 1..Len(grid') : grid'[i].score = 0
        ELSE /\ Len(grid') = Len(grid)
             /\ \A i \in 1..Len(grid) :
                   /\ grid'[i].score >= grid[i].score
                   /\ (grid'[i].score - grid[i].score) \in
                         PayoffSums(Cardinality(NeighborSet(grid[i].coord)))
                   /\ pc # "apply" => grid'[i].score = grid[i].score
      ]_vars

\* an agent with a positive score has imitated a neighbour and kept its score
C14_Witness ==
    /\ steps = 2
    /\ pc = "decide"
    /\ \E i \in 1..Len(grid) :
          /\ grid[i].strategy # start[i].strategy
          /\ grid[i].score = start[i].score
          /\ grid[i].score > 0

----------------------------------------------------------------------------
(* C15: get_action of a Deflect agent is Deflect and of a Coop agent Coop,    *)
(* whatever it has recorded; a TicToc agent answers the last action recorded  *)
(* about the neighbour, and Coop when nothing is recorded about it (no entry  *)
(* for the neighbour counts as the empty history).                            *)

C15_GetAction ==
    pc = "decided" =>
        LET self == grid[1]
            n    == grid[2].coord
        IN  /\ self.strategy = "Deflect" => result = "Deflect"
            /\ self.strategy = "Coop" => result = "Coop"
            /\ (self.strategy = "TicToc" /\ n \in DOMAIN self.history) =>
                  result = self.history[n][Len(self.history[n])]
            /\ (self.strategy = "TicToc" /\ n \notin DOMAIN self.history) =>
                  result = "Coop"
            /\ result \in Action

\* a TicToc agent has answered a history that begins with Coop and ends with Deflect
C15_Witness ==
    /\ pc = "decided"
    /\ grid[1].strategy = "TicToc"
    /\ <<0, 1>> \in DOMAIN grid[1].history
    /\ Len(grid[1].history[<<0, 1>>]) = 3
    /\ grid[1].history[<<0, 1>>][1] = "Coop"
    /\ grid[1].history[<<0, 1>>][3] = "Deflect"
    /\ result = "Deflect"

----------------------------------------------------------------------------
(* C16: score(Coop, Coop) = 3, score(Deflect, Coop) = 4, score(Coop, Deflect) *)
(* = 0 and score(Deflect, Deflect) = 0, and the first argument is the scored  *)
(* agent's own played action: a visited agent's score has grown by the sum,   *)
(* over its neighbours, of the table value of (its own played action, the     *)
(* neighbour's played action).                                                *)

\* the cell has been visited by the apply pass of the running or the last step
Applied(c) ==
    /\ steps >= 1
    /\ NumCells > 0
    /\ \/ pc \in {"aggregate", "idle"}
       \/ pc = "apply" /\ to_vec_index(num_col, c) < cursor

RECURSIVE PlayedSum(_, _, _)
PlayedSum(c, nc, i) ==
    IF i > Len(nc) THEN 0
    ELSE Payoff(played[<<c, nc[i]>>][1], played[<<c, nc[i]>>][2]) + PlayedSum(c, nc, i + 1)

C16_PayoffTable ==
    /\ Environment_score("Coop", "Coop") = 3
    /\ Environment_score("Deflect", "Coop") = 4
    /\ Environment_score("Coop", "Deflect") = 0
    /\ Environment_score("Deflect", "Deflect") = 0
    /\ \A c \in Cells :
          Applied(c) =>
              AgentAt(grid, c).score =
                  AgentAt(start, c).score + PlayedSum(c, neighbor_coord(num_row, num_col, c), 1)

\* an agent that decided Coop was flipped to Deflect against a Coop and was paid 4
C16_Witness ==
    /\ pc = "idle"
    /\ steps = 1
    /\ \E key \in DOMAIN played :
          /\ actions[key] = "Coop"
          /\ played[key] = <<"Deflect", "Coop">>
          /\ Cardinality(NeighborSet(key[1])) = 1
          /\ AgentAt(grid, key[1]).score = 4

----------------------------------------------------------------------------
(* C17: the snapshot of the Metric step() returns has num_row rows of num_col *)
(* entries, and its entry in row i, column j is the strategy the agent at     *)
(* (i, j) holds when step() returns.                                          *)

C17_Snapshot ==
    Returned =>
        LET snap == buffer[Len(buffer)].snapshot
        IN  /\ Len(snap) = num_row
            /\ \A i \in 1..Len(snap) : Len(snap[i]) = num_col
            /\ \A c \in Cells : snap[c[1] + 1][c[2] + 1] = AgentAt(grid, c).strategy

\* a Metric of a grid of two rows and one column whose agents hold different strategies
C17_Witness ==
    /\ Returned
    /\ num_row = 2
    /\ num_col = 1
    /\ Len(grid) = 2
    /\ buffer[Len(buffer)].snapshot = <<<<grid[1].strategy>>, <<grid[2].strategy>>>>
    /\ grid[1].strategy # grid[2].strategy

----------------------------------------------------------------------------
(* C18: every visit of the apply pass appends one action per neighbour: an    *)
(* agent's history has entries for its neighbours' coordinates only, each as  *)
(* long as the number of apply visits the agent has had (k after k completed  *)
(* steps), and no step changes or removes an element recorded earlier.        *)

\* the number of times the apply pass has visited the cell
ApplyVisits(c) == IF steps = 0 THEN 0 ELSE IF Applied(c) THEN steps ELSE steps - 1

IsPrefix(s, t) == Len(s) <= Len(t) /\ \A k \in 1..Len(s) : s[k] = t[k]

C18_HistoryLengths ==
    \A c \in Cells :
        LET a == AgentAt(grid, c)
        IN  /\ DOMAIN a.history = IF ApplyVisits(c) = 0 THEN {} ELSE NeighborSet(c)
            /\ \A n \in DOMAIN a.history : Len(a.history[n]) = ApplyVisits(c)
            /\ pc = "idle" => ApplyVisits(c) = Len(buffer)

C18_AppendOnly ==
    [][ /\ \A i \in 1..Len(grid) :
              \A n \in DOMAIN grid[i].history :
                  /\ n \in DOMAIN grid'[i].history
                  /\ IsPrefix(grid[i].history[n], grid'[i].history[n])
        /\ C18_HistoryLengths'
      ]_vars

\* two steps have completed on a 1x3 grid: the middle agent has two entries of length 2
C18_Witness ==
    /\ pc = "idle"
    /\ Len(buffer) = 2
    /\ num_row = 1
    /\ num_col = 3
    /\ Len(grid) = 3
    /\ DOMAIN grid[2].history = {<<0, 0>>, <<0, 2>>}
    /\ grid[2].history[<<0, 0>>] = <<"Coop", "Deflect">>
    /\ Len(grid[2].history[<<0, 2>>]) = 2

----------------------------------------------------------------------------
(* C19: a visit of the adapt pass changes nothing but the strategy of the     *)
(* visited cell, a visit of the apply pass nothing but the score and the      *)
(* history of the visited cell, and no other step of step() changes an agent; *)
(* no step changes a coord, the grid dimensions, the number of agents or the  *)
(* noise value.                                                               *)

C19_SelfScoped ==
    [][ pc # "start" =>
            /\ num_row' = num_row
            /\ num_col' = num_col
            /\ noise' = noise
            /\ Len(grid') = Len(grid)
            /\ \A i \in 1..Len(grid) :
                  /\ grid'[i].coord = grid[i].coord
                  /\ (pc = "adapt" /\ i = cursor + 1) =>
                        grid'[i] = [grid[i] EXCEPT !.strategy = grid'[i].strategy]
                  /\ (pc = "apply" /\ i = cursor + 1) =>
                        grid'[i] = [grid[i] EXCEPT !.score = grid'[i].score,
                                                   !.history = grid'[i].history]
                  /\ ~(pc \in {"adapt", "apply"} /\ i = cursor + 1) =>
                        grid'[i] = grid[i]
      ]_vars

\* the apply pass has paid the first cell and left the second, which had imitated
\* in the adapt pass, with the score and history it had when step() was called
C19_Witness ==
    /\ steps = 2
    /\ pc = "apply"
    /\ cursor = 1
    /\ grid[1].score > start[1].score
    /\ grid[1].strategy = start[1].strategy
    /\ grid[2].strategy # start[2].strategy
    /\ grid[2] = [start[2] EXCEPT !.strategy = grid[2].strategy]

----------------------------------------------------------------------------
(* C20: the neighbour relation is symmetric, and with every agent built at    *)
(* the coordinate the factory was called with the decide pass leaves exactly  *)
(* one decided action per ordered neighbour pair, so that every key the apply *)
(* pass looks up is present and step() never fails on a missing key.          *)

C20_KeysPresent ==
    /\ \A c \in Cells, n \in Cells : n \in NeighborSet(c) <=> c \in NeighborSet(n)
    /\ \A i \in 1..Len(grid) : grid[i].coord = CellAt(num_col, i - 1)
    /\ pc # "panic"
    /\ pc = "decide" =>
          DOMAIN actions = {p \in OrderedPairs : to_vec_index(num_col, p[1]) < cursor}
    /\ (steps >= 1 /\ pc \in {"apply", "aggregate", "idle"}) =>
          DOMAIN actions = OrderedPairs
    /\ pc = "apply" =>
          LET c == CellAt(num_col, cursor)
          IN  apply_keys(AgentAt(grid, c), agents(grid, num_row, num_col, c))
                  \subseteq DOMAIN actions

\* the apply pass of the 2x3 grid has looked up all of its 22 ordered pairs
C20_Witness ==
    /\ num_row = 2
    /\ num_col = 3
    /\ pc = "aggregate"
    /\ Cardinality(DOMAIN actions) = 22
    /\ DOMAIN played = DOMAIN actions

----------------------------------------------------------------------------
(* C21: imitation only copies strategies already in the grid: no step of      *)
(* step() adds a strategy to the set the grid holds, so that after a step the *)
(* set is a subset of the set held when the step was called and the number of *)
(* distinct strategies never increases; a grid whose cells all hold the same  *)
(* strategy keeps every strategy, and the snapshot after a uniform snapshot   *)
(* is identical to it, for every noise value.                                 *)

Held(g) == {g[i].strategy : i \in 1..Len(g)}

SnapshotHeld(m) ==
    {m.snapshot[i][j] : <<i, j>> \in
        {p \in (1..Len(m.snapshot)) \X (1..MaxCol) : p[2] <= Len(m.snapshot[p[1]])}}

C21_ImitationOnly ==
    [][ pc # "start" =>
            /\ Held(grid') \subseteq Held(grid)
            /\ Cardinality(Held(grid')) <= Cardinality(Held(grid))
            /\ steps' >= 1 =>
                  /\ Held(grid') \subseteq Held(start')
                  /\ Cardinality(Held(grid')) <= Cardinality(Held(start'))
            /\ Cardinality(Held(grid)) <= 1 =>
                  \A i \in 1..Len(grid) : grid'[i].strategy = grid[i].strategy
            /\ \A k \in 1..(Len(buffer') - 1) :
                  Cardinality(SnapshotHeld(buffer'[k])) <= 1 =>
                      buffer'[k + 1].snapshot = buffer'[k].snapshot
      ]_vars

\* the second step was called on a grid of two strategies and returned a uniform one
C21_Witness ==
    /\ Returned
    /\ steps = 2
    /\ Cardinality(Held(start)) = 2
    /\ Cardinality(Held(grid)) = 1
    /\ Cardinality(SnapshotHeld(buffer[1])) = 2
    /\ Cardinality(SnapshotHeld(buffer[2])) = 1

----------------------------------------------------------------------------
(* C22: the first step() on an Environment whose agents were built with       *)
(* Agent::new changes no strategy, whatever the grid, the assignment and the  *)
(* noise: during and after the first step every agent holds the strategy it   *)
(* held when the step was called, and the first Metric's snapshot and         *)
(* strategy counts are those of the initial assignment.                       *)

C22_FirstStepKeeps ==
    steps = 1 =>
        /\ Len(grid) = Len(start)
        /\ \A i \in 1..Len(grid) : grid[i].strategy = start[i].strategy
        /\ Len(buffer) = 1 =>
              LET m == buffer[1]
              IN  /\ Len(m.snapshot) = num_row
                  /\ \A c \in Cells :
                        m.snapshot[c[1] + 1][c[2] + 1] = AgentAt(start, c).strategy
                  /\ \A s \in Strategy :
                        LET n == Cardinality({c \in Cells : AgentAt(start, c).strategy = s})
                        IN  IF n = 0 THEN s \notin DOMAIN m.strategies
                            ELSE s \in DOMAIN m.strategies /\ m.strategies[s] = n

\* the first step has returned with a neighbour of another strategy strictly ahead
\* of the first cell, which still holds its initial strategy
C22_Witness ==
    /\ Returned
    /\ steps = 1
    /\ Len(grid) >= 2
    /\ noise > 0
    /\ grid[2].score > grid[1].score
    /\ grid[2].strategy # grid[1].strategy
    /\ grid[1].strategy = start[1].strategy
    /\ start[1].score = 0
    /\ start[2].score = 0
    /\ buffer[1].snapshot[1][1] = start[1].strategy

====
